---- MODULE Spec2Model ----
(***************************************************************************)
(* Model of support-lib/wasm/Future_wasm.hpp: FutureAdaptor<RESULT>, the   *)
(* bridge between djinni::Future / djinni::Promise (native) and the        *)
(* JavaScript Promise (host).                                              *)
(*                                                                         *)
(*   fromCpp  : native future -> host promise   (CppResolveHandler)        *)
(*   toCpp    : host promise  -> native future  (NativePromiseType)        *)
(*   handleNativeException : native exception -> rejected host promise     *)
(*                                                                         *)
(* The native future/promise primitive (Future.hpp), the boxing            *)
(* collaborator RESULT::Boxed, the host promise and the emscripten         *)
(* main-thread queue are not part of Future_wasm.hpp; they are modelled    *)
(* by the interface the bridge consumes.                                   *)
(***************************************************************************)
EXTENDS Integers, Sequences, FiniteSets

\* ------------------------------------------------------------------ bounds

\* Number of CppResolveHandler objects (fromCpp calls) in one run.
MaxCtx == 2
\* Number of NativePromise objects (toCpp calls) in one run.
MaxProm == 2
\* Native payload values are 0..MaxVal.
MaxVal == 1

Ctx == 1..MaxCtx
Prom == 1..MaxProm
NatVal == 0..MaxVal

\* ------------------------------------------------------- values and types

\* Threads: the host runtime's designated thread and a native worker.
MainThread == "main"
WorkerThread == "worker"

\* A thread that can exist in the build: workers exist only when the
\* library is built with __EMSCRIPTEN_PTHREADS__.
Threads(isThreaded) == IF isThreaded THEN {MainThread, WorkerThread} ELSE {MainThread}

\* Host (em::val) values: [kind, n, msg].  kind "Error" is an instance of the
\* host Error type; n is the number of a "num" and the identity of an "Error".
Undefined == [kind |-> "undefined", n |-> 0, msg |-> ""]
HostNum(i) == [kind |-> "num", n |-> i, msg |-> ""]
HostError(i, m) == [kind |-> "Error", n |-> i, msg |-> m]
HostNull == [kind |-> "null", n |-> 0, msg |-> ""]
HostStr == [kind |-> "str", n |-> 0, msg |-> ""]

\* The values a host promise can settle with.
HostVal == {HostNum(i) : i \in NatVal} \cup {HostError(i, "js") : i \in NatVal}
             \cup {Undefined, HostNull, HostStr}

\* err.instanceof(Error): false for null, undefined and every non-error.
InstanceOfError(h) == h.kind = "Error"

\* Native exceptions: [cls, what, cause].  cls "other" is a thrown object
\* whose type does not derive from std::exception.
NativeExc(c, w) == [cls |-> c, what |-> w, cause |-> Undefined]
NoExc == NativeExc("none", "")
UserExc == {NativeExc(c, "boom") : c \in {"std::exception", "other"}}
\* What std::current_exception() can return where handleNativeException is
\* called: the exception being handled (the argument itself, another
\* std::exception, or an object of another type), or a null exception_ptr
\* (NoExc) when no exception is being handled.
InFlight == UserExc \cup {NativeExc("std::exception", "current"), NoExc}

IsStdException(e) == e.cls \in {"std::exception", "std::runtime_error", "JsException"}

\* JsException(err): a std::runtime_error that keeps the host error object.
JsException(err) == [cls |-> "JsException", what |-> err.msg, cause |-> err]
\* std::runtime_error("JS promise rejected with non-error type")
NonErrorRejection == NativeExc("std::runtime_error", "JS promise rejected with non-error type")

\* djinni_native_exception_to_js(e): a host Error carrying e.what().
djinni_native_exception_to_js(e) == HostError(0, e.what)

\* Result types RESULT: CppType void or a value type; boxThrows says whether
\* RESULT::Boxed::fromCpp converts this type's values or throws (a
\* std::exception) on them.
ResultTypes == {[cppVoid |-> TRUE, boxThrows |-> FALSE]}
                 \cup {[cppVoid |-> FALSE, boxThrows |-> b] : b \in BOOLEAN}

\* RESULT::Boxed::fromCpp(v): [thrown, val, exc].
BoxedFromCpp(R, v) ==
    IF R.boxThrows
    THEN [thrown |-> TRUE, val |-> Undefined, exc |-> NativeExc("std::exception", "box")]
    ELSE [thrown |-> FALSE, val |-> HostNum(v), exc |-> NoExc]

\* RESULT::Boxed::toCpp(h): only a host number converts; anything else
\* makes the collaborator throw.
BoxedToCpp(h) ==
    IF h.kind = "num"
    THEN [thrown |-> FALSE, val |-> h.n, exc |-> NoExc]
    ELSE [thrown |-> TRUE, val |-> 0, exc |-> NativeExc("std::exception", "unbox")]

\* A C++ exception that leaves an exported function is seen by the host as
\* a thrown value that is not an Error instance.
CppThrown == [kind |-> "cppexc", n |-> 0, msg |-> ""]

\* ------------------------------------------------ native future primitive

\* Shared state of a Future/Promise pair: [st, val, exc].
PendingFuture == [st |-> "pending", val |-> 0, exc |-> NoExc]
ValueFuture(v) == [st |-> "value", val |-> v, exc |-> NoExc]
FailedFuture(e) == [st |-> "exception", val |-> 0, exc |-> e]

\* The completed states a future of result type R can take.  A type whose
\* boxing throws does so on every value, so one value stands for them.
Outcomes(R) ==
    (IF R.cppVoid THEN {ValueFuture(0)}
     ELSE IF R.boxThrows THEN {ValueFuture(MaxVal)}
     ELSE {ValueFuture(v) : v \in NatVal})
      \cup {FailedFuture(e) : e \in UserExc}

AllOutcomes == UNION {Outcomes(R) : R \in ResultTypes}

\* Whether the shared state counts as complete: it holds a value or a
\* non-null exception_ptr.  A state failed with a null exception_ptr is not
\* ready, and its promise is spent.
IsReady(f) == f.st = "value" \/ (f.st = "exception" /\ f.exc # NoExc)

\* Future::get(): the value, or the stored exception rethrown.
FutureGet(f) ==
    IF f.st = "exception"
    THEN [thrown |-> TRUE, val |-> 0, exc |-> f.exc]
    ELSE [thrown |-> FALSE, val |-> f.val, exc |-> NoExc]

VARIABLES
    threaded,    \* built with __EMSCRIPTEN_PTHREADS__
    handler,     \* Ctx -> CppResolveHandler object and what was done to it
    future,      \* Ctx -> the native future given to fromCpp: its state then
                 \* and now, whether the continuation is attached, its firings,
                 \* and the argument of handleNativeException when it made it
    pcF,         \* Ctx -> position of the fromCpp call
    mainQueue,   \* trampolines posted to the main runtime thread
    hostPromise, \* Prom -> the host promise given to toCpp and its chain
    nativePromise \* Prom -> NativePromiseType object, its future, what was done

vars == <<threaded, handler, future, pcF, mainQueue, hostPromise, nativePromise>>
n2hVars == <<handler, future, pcF, mainQueue>>
h2nVars == <<hostPromise, nativePromise>>

\* --------------------------------------- Native -> Host: CppResolveHandler

\* A CppResolveHandler as constructed: both callables undefined, no future.
\* calls, deletes, escaped, boxCalls and via record what happened to it;
\* log is the order of the accesses to the object, afterFree says that one
\* of them came after the delete, and inResolve that a worker thread is
\* inside resolve.
NewHandler(R, origin) ==
    [alloc |-> "live", result |-> R,
     resolveFunc |-> "undefined", rejectFunc |-> "undefined",
     hasFuture |-> FALSE, fut |-> PendingFuture, storedBy |-> "nobody",
     calls |-> <<>>, deletes |-> <<>>, escaped |-> NoExc, trampolines |-> <<>>,
     boxCalls |-> 0, via |-> origin,
     log |-> <<>>, afterFree |-> FALSE, inResolve |-> FALSE]

\* An access to handler h by thread t, entered in its log.
Access(h, what, t) ==
    [h EXCEPT !.log = Append(@, [op |-> what, thread |-> t]),
              !.afterFree = @ \/ h.alloc = "freed"]

NoHandler == [NewHandler(CHOOSE R \in ResultTypes : R.cppVoid, "nobody") EXCEPT !.alloc = "none"]

\* A faulty init: the two callables are not stored.
HandlerInit_Dropped(h) == Access(h, "init", MainThread)

\* CppResolveHandler::init
HandlerInit(h) ==
    [Access(h, "init", MainThread) EXCEPT !.resolveFunc = "resolve", !.rejectFunc = "reject"]

\* _resolveFunc(arg) / _rejectFunc(arg) on thread t: the callable invoked is
\* whatever the field holds.
CallResolveFunc(h, arg, t) ==
    [h EXCEPT !.calls = Append(@, [fn |-> h.resolveFunc, arg |-> arg, thread |-> t])]
CallRejectFunc(h, arg, t) ==
    [h EXCEPT !.calls = Append(@, [fn |-> h.rejectFunc, arg |-> arg, thread |-> t])]

\* A faulty doResolve: the value branch hands resolve the void branch's
\* undefined payload instead of the boxed value.
DoResolve_Unboxed(h, t) == CallResolveFunc(h, Undefined, t)

\* A faulty doResolve: the void branch is missing, so a void result goes
\* through the boxing collaborator like any value.
DoResolve_BoxesVoid(h, t) ==
    CallResolveFunc([h EXCEPT !.boxCalls = @ + 1], HostNum(h.fut.val), t)

\* CppResolveHandler::doResolve on thread t.  For a void CppType the future
\* is not read.  Only std::exception is caught; anything else leaves
\* doResolve (recorded in escaped).
DoResolve(h, t) ==
    LET got == FutureGet(h.fut)
        box == BoxedFromCpp(h.result, got.val)
        boxed == ~h.result.cppVoid /\ ~got.thrown
        thrown == IF h.result.cppVoid THEN NoExc
                  ELSE IF got.thrown THEN got.exc
                  ELSE IF box.thrown THEN box.exc
                  ELSE NoExc
        h1 == [h EXCEPT !.boxCalls = IF boxed THEN @ + 1 ELSE @]
    IN  IF thrown = NoExc
        THEN CallResolveFunc(h1, IF h.result.cppVoid THEN Undefined ELSE box.val, t)
        ELSE IF IsStdException(thrown)
        THEN CallRejectFunc(h1, djinni_native_exception_to_js(thrown), t)
        ELSE [h1 EXCEPT !.escaped = thrown]

\* CppResolveHandler::trampoline on thread t: doResolve, then delete; the
\* delete is skipped when doResolve is left by an exception.
Trampoline(h, t) ==
    LET h0 == [Access(h, "trampoline", t) EXCEPT !.trampolines = Append(@, t)]
        d == DoResolve(h0, t)
    IN  IF d.escaped # NoExc
        THEN d
        ELSE [Access(d, "delete", t) EXCEPT !.alloc = "freed", !.deletes = Append(@, t)]

\* A faulty resolve: the direct call of the build without pthreads is
\* compiled into the threaded build too.
PostChoices_Direct(isThreaded, t) == {FALSE}

\* Whether resolve, called on thread t, posts the trampoline to the main
\* runtime thread (TRUE) or runs it in place (FALSE).  Without pthreads it
\* is a direct call; with pthreads a worker always posts, and a call made on
\* the main thread itself is either run directly or queued by the runtime.
PostChoices(isThreaded, t) ==
    IF ~isThreaded THEN {FALSE}
    ELSE IF t = MainThread THEN {TRUE, FALSE}
    ELSE {TRUE}

\* resolve, first statement: _future = std::move(future), on thread t.
StoreFuture(h, f, t) ==
    [Access(h, "store", t) EXCEPT !.fut = f, !.hasFuture = TRUE, !.storedBy = t]

\* A faulty resolve: the #else is missing, so the trampoline is called
\* directly even when it was posted too.
Resolve_PostAndCall(h, f, t, post) == Trampoline(StoreFuture(h, f, t), t)

\* CppResolveHandler::resolve(future) called on the main thread.
Resolve(h, f, t, post) ==
    LET h1 == StoreFuture(h, f, t)
    IN  IF post THEN h1 ELSE Trampoline(h1, t)

\* A faulty resolve: the trampoline is posted before the future is stored.
ResolveOrder_PostFirst == <<"post", "store">>

\* The order of resolve's two statements when a worker thread runs it:
\* the future is stored, then the trampoline is posted.  The main thread
\* can run between the two.
ResolveOrder == <<"store", "post">>

\* Statement i of resolve, run by a worker thread for context c.
WorkerResolveStep(c, f, i) ==
    /\ handler' = [handler EXCEPT ![c] =
                      [(IF ResolveOrder[i] = "store" THEN StoreFuture(@, f, WorkerThread) ELSE @)
                          EXCEPT !.inResolve = (i = 1)]]
    /\ mainQueue' = IF ResolveOrder[i] = "post" THEN Append(mainQueue, c) ELSE mainQueue

\* The main thread is inside a fromCpp call.
MainIdle == \A c \in Ctx : pcF[c] \notin {"new", "built"}

\* The continuation attached by fromCpp fires for context c on thread t.
\* When a worker thread posts, only resolve's first statement runs in this
\* step.
FireContinuation(c, f, t, post) ==
    IF t = WorkerThread /\ post
    THEN WorkerResolveStep(c, f, 1)
    ELSE /\ handler' = [handler EXCEPT ![c] = Resolve(handler[c], f, t, post)]
         /\ mainQueue' = IF post THEN Append(mainQueue, c) ELSE mainQueue

\* The worker thread inside resolve for context c runs the second statement.
WorkerResolveRest(c) ==
    /\ handler[c].inResolve
    /\ WorkerResolveStep(c, future[c].state, 2)
    /\ UNCHANGED <<threaded, future, pcF, h2nVars>>

\* A bridge can start for context c: the context is unused, the main
\* thread is not inside another fromCpp, and contexts are handed out in order.
CanStart(c) ==
    /\ pcF[c] = "idle"
    /\ MainIdle
    /\ \A d \in Ctx : d < c => pcF[d] # "idle"

\* fromCpp, first statement: new CppResolveHandler().  The future f0 handed
\* in is pending or already complete.
FromCppNew(c, R, f0) ==
    /\ CanStart(c)
    /\ f0 \in {PendingFuture} \cup Outcomes(R)
    /\ handler' = [handler EXCEPT ![c] = NewHandler(R, "fromCpp")]
    /\ future' = [future EXCEPT ![c] = [given |-> f0, state |-> f0, cont |-> FALSE, fired |-> 0, arg |-> NoExc]]
    /\ pcF' = [pcF EXCEPT ![c] = "new"]
    /\ UNCHANGED <<threaded, mainQueue, h2nVars>>

\* ExceptionHandlingTraits<FutureAdaptor<U>>::handleNativeException(e),
\* called while cur is what std::current_exception() returns:
\* r = NativePromiseType::reject(current_exception()), then fromCpp(r).
\* The parameter e, a std::exception by its type, is never read; it is
\* kept in arg.
HandleNativeException(c, U, e, cur) ==
    /\ CanStart(c)
    /\ IsStdException(e)
    /\ handler' = [handler EXCEPT ![c] = NewHandler(U, "handleNativeException")]
    /\ future' = [future EXCEPT ![c] = [given |-> FailedFuture(cur), state |-> FailedFuture(cur),
                                         cont |-> FALSE, fired |-> 0, arg |-> e]]
    /\ pcF' = [pcF EXCEPT ![c] = "new"]
    /\ UNCHANGED <<threaded, mainQueue, h2nVars>>

\* fromCpp: jsPromiseBuilderClass.new_(handler), whose Promise constructor
\* calls init with the promise's resolve and reject functions.
FromCppBuild(c) ==
    /\ pcF[c] = "new"
    /\ handler' = [handler EXCEPT ![c] = HandlerInit(handler[c])]
    /\ pcF' = [pcF EXCEPT ![c] = "built"]
    /\ UNCHANGED <<threaded, future, mainQueue, h2nVars>>

\* fromCpp: c.then(lambda) and return.  On a completed future the
\* continuation runs at once, on the calling (main) thread; an exception
\* that leaves the trampoline run in place leaves then and fromCpp too, and
\* no promise is returned ("threw").
FromCppThen(c, post) ==
    /\ pcF[c] = "built"
    /\ IF IsReady(future[c].state)
       THEN /\ post \in PostChoices(threaded, MainThread)
            /\ future' = [future EXCEPT ![c].cont = TRUE, ![c].fired = @ + 1]
            /\ FireContinuation(c, future[c].state, MainThread, post)
       ELSE /\ future' = [future EXCEPT ![c].cont = TRUE]
            /\ post = FALSE
            /\ UNCHANGED <<handler, mainQueue>>
    /\ pcF' = [pcF EXCEPT ![c] = IF handler'[c].escaped # NoExc THEN "threw" ELSE "returned"]
    /\ UNCHANGED <<threaded, h2nVars>>

\* Host promise states: [st, val].
HostPending == [st |-> "pending", val |-> Undefined]
HostFulfilled(h) == [st |-> "fulfilled", val |-> h]
HostRejected(h) == [st |-> "rejected", val |-> h]

\* toCpp(fromCpp(f)): the round trip uses the first context and the
\* NativePromise of the same number.
RTCtx == CHOOSE c \in Ctx \cap Prom : \A d \in Ctx \cap Prom : c <= d

\* The promise of the DjinniJsPromiseBuilder made for handler h: settled by
\* the first invocation of the resolve or reject function given to init.
BuilderPromise(h) ==
    IF h.calls = <<>> THEN HostPending
    ELSE IF h.calls[1].fn = "resolve" THEN HostFulfilled(h.calls[1].arg)
    ELSE IF h.calls[1].fn = "reject" THEN HostRejected(h.calls[1].arg)
    ELSE HostPending

\* The host promise toCpp registered on, after a step that left handler c
\* as h: when it is the builder's promise of c, the first invocation of
\* the resolve or reject function settles it in that very step.
BuilderSettles(c, h) ==
    IF c = RTCtx /\ nativePromise[c].alloc # "none" /\ hostPromise[c].o.st = "pending"
    THEN [hostPromise EXCEPT ![c].o = BuilderPromise(h)]
    ELSE hostPromise

\* The native computation behind a pending future finishes on thread t with
\* outcome o; an attached continuation runs there.
Complete(c, t, o, post) ==
    /\ pcF[c] # "idle"
    /\ future[c].state.st = "pending"
    /\ t \in Threads(threaded)
    /\ t = MainThread => MainIdle
    /\ o \in Outcomes(handler[c].result)
    /\ IF future[c].cont
       THEN /\ post \in PostChoices(threaded, t)
            /\ future' = [future EXCEPT ![c].state = o, ![c].fired = @ + 1]
            /\ FireContinuation(c, o, t, post)
       ELSE /\ future' = [future EXCEPT ![c].state = o]
            /\ post = FALSE
            /\ UNCHANGED <<handler, mainQueue>>
    /\ hostPromise' = BuilderSettles(c, handler'[c])
    /\ UNCHANGED <<threaded, pcF, nativePromise>>

\* The main runtime thread runs the trampoline at the head of its queue.
RunPosted ==
    /\ mainQueue # <<>>
    /\ MainIdle
    /\ handler' = [handler EXCEPT ![Head(mainQueue)] = Trampoline(@, MainThread)]
    /\ mainQueue' = Tail(mainQueue)
    /\ hostPromise' = BuilderSettles(Head(mainQueue), handler'[Head(mainQueue)])
    /\ UNCHANGED <<threaded, future, pcF, nativePromise>>

\* --------------------------------------- Host -> Native: NativePromiseType

HostSettlements == {HostFulfilled(h) : h \in HostVal} \cup {HostRejected(h) : h \in HostVal}

\* The result types toCpp and handleNativeException are used with: neither
\* reaches Boxed::fromCpp, so its fault plays no part.
UnboxTypes == {R \in ResultTypes : ~R.boxThrows}

\* A faulty allocation: the promise has automatic storage and is destroyed
\* when toCpp returns.
NewNativePromise_Scoped(R) ==
    [alloc |-> "deleted", result |-> R, fut |-> PendingFuture,
     terminal |-> <<>>, deletes |-> 1, callbacks |-> <<>>,
     afterDelete |-> FALSE, unboxCalls |-> 0]

\* new NativePromiseType() and its paired future.  terminal, deletes,
\* callbacks, afterDelete and unboxCalls record what was done to it.
NewNativePromise(R) ==
    [alloc |-> "live", result |-> R, fut |-> PendingFuture,
     terminal |-> <<>>, deletes |-> 0, callbacks |-> <<>>,
     afterDelete |-> FALSE, unboxCalls |-> 0]

NoNativePromise ==
    [NewNativePromise(CHOOSE R \in UnboxTypes : R.cppVoid) EXCEPT !.alloc = "none"]

\* Promise::setValue / setException: the first terminal call completes the
\* paired future.
SetValue(np, v) ==
    [np EXCEPT !.terminal = Append(@, "setValue"),
               !.afterDelete = @ \/ np.alloc # "live",
               !.fut = IF @.st = "pending" THEN ValueFuture(v) ELSE @]
SetException(np, e) ==
    [np EXCEPT !.terminal = Append(@, "setException"),
               !.afterDelete = @ \/ np.alloc # "live",
               !.fut = IF @.st = "pending" THEN FailedFuture(e) ELSE @]

\* delete pNativePromise
DeleteNativePromise(np) ==
    [np EXCEPT !.alloc = "deleted", !.deletes = @ + 1,
               !.afterDelete = @ \/ np.alloc # "live"]

\* A faulty resolveNativePromise: the value branch calls setValue without
\* the unboxed value, as the void branch does.
ResolveNativePromise_NoUnbox(np, res) ==
    [np |-> DeleteNativePromise(SetValue(
                [np EXCEPT !.callbacks = Append(@, "resolveNativePromise")], 0)),
     thrown |-> FALSE]

\* resolveNativePromise(context, res): [np, thrown].  When the unboxing
\* throws, neither setValue nor delete is reached.
ResolveNativePromise(np, res) ==
    LET np0 == [np EXCEPT !.callbacks = Append(@, "resolveNativePromise")]
        u == BoxedToCpp(res)
    IN  IF np.result.cppVoid
        THEN [np |-> DeleteNativePromise(SetValue(np0, 0)), thrown |-> FALSE]
        ELSE IF u.thrown
        THEN [np |-> [np0 EXCEPT !.unboxCalls = @ + 1], thrown |-> TRUE]
        ELSE [np |-> DeleteNativePromise(SetValue([np0 EXCEPT !.unboxCalls = @ + 1], u.val)),
              thrown |-> FALSE]

\* A faulty rejectNativePromise: the non-error branch forgets the delete.
RejectNativePromise_Leak(np, err) ==
    LET np0 == [np EXCEPT !.callbacks = Append(@, "rejectNativePromise")]
    IN  IF InstanceOfError(err)
        THEN DeleteNativePromise(SetException(np0, JsException(err)))
        ELSE SetException(np0, NonErrorRejection)

\* A faulty rejectNativePromise: every rejection becomes the generic
\* runtime_error, the error object is dropped.
RejectNativePromise_Generic(np, err) ==
    DeleteNativePromise(SetException(
        [np EXCEPT !.callbacks = Append(@, "rejectNativePromise")], NonErrorRejection))

\* A faulty rejectNativePromise: the instanceof test is dropped and every
\* rejection value is wrapped in a JsException.
RejectNativePromise_WrapAll(np, err) ==
    DeleteNativePromise(SetException(
        [np EXCEPT !.callbacks = Append(@, "rejectNativePromise")], JsException(err)))

\* rejectNativePromise(context, err)
RejectNativePromise(np, err) ==
    LET np0 == [np EXCEPT !.callbacks = Append(@, "rejectNativePromise")]
    IN  IF InstanceOfError(err)
        THEN DeleteNativePromise(SetException(np0, JsException(err)))
        ELSE DeleteNativePromise(SetException(np0, NonErrorRejection))

\* The promise the rejecter is registered on: next, the promise returned by
\* o.then(resolver).
CatchTarget(hp) == hp.next

\* A faulty toCpp: a host promise that is already fulfilled has its resolver
\* run inside the call.
ToCpp_Sync(p, R, o0) ==
    /\ nativePromise[p].alloc = "none"
    /\ \A q \in Prom : q < p => nativePromise[q].alloc # "none"
    /\ LET r == ResolveNativePromise(NewNativePromise(R), o0.val)
       IN  IF o0.st = "fulfilled"
           THEN /\ nativePromise' = [nativePromise EXCEPT ![p] = r.np]
                /\ hostPromise' = [hostPromise EXCEPT ![p] =
                       [o |-> o0,
                        next |-> IF r.thrown THEN HostRejected(CppThrown)
                                 ELSE HostFulfilled(Undefined),
                        thenRan |-> TRUE, catchRan |-> FALSE]]
           ELSE /\ nativePromise' = [nativePromise EXCEPT ![p] = NewNativePromise(R)]
                /\ hostPromise' = [hostPromise EXCEPT ![p] =
                       [o |-> o0, next |-> HostPending, thenRan |-> FALSE, catchRan |-> FALSE]]
    /\ UNCHANGED <<threaded, n2hVars>>

\* toCpp(o): allocate the NativePromise, register resolver on o and rejecter
\* on next, return the pending future.  o is pending or already settled.
ToCpp(p, R, o0) ==
    /\ nativePromise[p].alloc = "none"
    /\ \A q \in Prom : q < p => nativePromise[q].alloc # "none"
    /\ nativePromise' = [nativePromise EXCEPT ![p] = NewNativePromise(R)]
    /\ hostPromise' = [hostPromise EXCEPT ![p] =
                          [o |-> o0, next |-> HostPending, thenRan |-> FALSE, catchRan |-> FALSE]]
    /\ UNCHANGED <<threaded, n2hVars>>

\* The host promise o settles.
HostSettle(p, s) ==
    /\ nativePromise[p].alloc # "none"
    /\ hostPromise[p].o.st = "pending"
    /\ hostPromise' = [hostPromise EXCEPT ![p].o = s]
    /\ UNCHANGED <<threaded, n2hVars, nativePromise>>

\* The reaction registered by o.then(resolver) runs: a fulfilment calls
\* the resolver, and next is fulfilled with its return value or rejected
\* with what it threw; a rejection passes through to next.
ThenReaction(p) ==
    /\ hostPromise[p].o.st # "pending"
    /\ ~hostPromise[p].thenRan
    /\ LET hp == hostPromise[p]
           r == ResolveNativePromise(nativePromise[p], hp.o.val)
       IN  IF hp.o.st = "fulfilled"
           THEN /\ nativePromise' = [nativePromise EXCEPT ![p] = r.np]
                /\ hostPromise' = [hostPromise EXCEPT ![p].thenRan = TRUE,
                                      ![p].next = IF r.thrown THEN HostRejected(CppThrown)
                                                  ELSE HostFulfilled(Undefined)]
           ELSE /\ hostPromise' = [hostPromise EXCEPT ![p].thenRan = TRUE,
                                      ![p].next = HostRejected(hp.o.val)]
                /\ UNCHANGED nativePromise
    /\ UNCHANGED <<threaded, n2hVars>>

\* The reaction registered by next.catch(rejecter) runs.
CatchReaction(p) ==
    /\ CatchTarget(hostPromise[p]).st = "rejected"
    /\ ~hostPromise[p].catchRan
    /\ nativePromise' = [nativePromise EXCEPT
                            ![p] = RejectNativePromise(@, CatchTarget(hostPromise[p]).val)]
    /\ hostPromise' = [hostPromise EXCEPT ![p].catchRan = TRUE]
    /\ UNCHANGED <<threaded, n2hVars>>

\* ----------------------------------------------------------- specification

NoHostPromise == [o |-> HostPending, next |-> HostPending, thenRan |-> FALSE, catchRan |-> FALSE]

Init ==
    /\ threaded \in BOOLEAN
    /\ handler = [c \in Ctx |-> NoHandler]
    /\ future = [c \in Ctx |-> [given |-> PendingFuture, state |-> PendingFuture, cont |-> FALSE, fired |-> 0, arg |-> NoExc]]
    /\ pcF = [c \in Ctx |-> "idle"]
    /\ mainQueue = <<>>
    /\ hostPromise = [p \in Prom |-> NoHostPromise]
    /\ nativePromise = [p \in Prom |-> NoNativePromise]

\* Native -> Host bridge
NextN2H ==
    \/ \E c \in Ctx, R \in ResultTypes, f0 \in {PendingFuture} \cup AllOutcomes :
          FromCppNew(c, R, f0)
    \/ \E c \in Ctx, U \in UnboxTypes, e \in UserExc, cur \in InFlight :
          HandleNativeException(c, U, e, cur)
    \/ \E c \in Ctx : FromCppBuild(c)
    \/ \E c \in Ctx, post \in BOOLEAN : FromCppThen(c, post)
    \/ \E c \in Ctx, t \in {MainThread, WorkerThread}, o \in AllOutcomes, post \in BOOLEAN :
          Complete(c, t, o, post)
    \/ \E c \in Ctx : WorkerResolveRest(c)
    \/ RunPosted

\* Host -> Native bridge
NextH2N ==
    \/ \E p \in Prom, R \in UnboxTypes, o0 \in {HostPending} \cup HostSettlements : ToCpp(p, R, o0)
    \/ \E p \in Prom, s \in HostSettlements : HostSettle(p, s)
    \/ \E p \in Prom : ThenReaction(p)
    \/ \E p \in Prom : CatchReaction(p)

SpecN2H == Init /\ [][NextN2H]_vars
SpecH2N == Init /\ [][NextH2N]_vars

\* ------------------------------------------------------------------ claims

\* Invocations of the host resolve / reject callable made through handler h.
ResolveCalls(h) == SelectSeq(h.calls, LAMBDA x : x.fn = "resolve")
RejectCalls(h) == SelectSeq(h.calls, LAMBDA x : x.fn = "reject")

\* The trampoline of handler h has run.
TrampolineRan(h) == h.trampolines # <<>>

\* fromCpp has returned for context c, no thread is inside resolve and no
\* trampoline of it is waiting in the main thread's queue.
Settled(c) ==
    /\ pcF[c] = "returned"
    /\ handler[c].hasFuture
    /\ ~handler[c].inResolve
    /\ \A i \in 1..Len(mainQueue) : mainQueue[i] # c

\* C1: for every fromCpp call the stored resolve and reject callables are
\* invoked at most once in total, and once the trampoline has run exactly
\* one of them has been invoked.
C1_ExactlyOneSettlement ==
    \A c \in Ctx :
        /\ Len(handler[c].calls) <= 1
        /\ TrampolineRan(handler[c]) =>
              Len(ResolveCalls(handler[c])) + Len(RejectCalls(handler[c])) = 1

\* C2: for every result type, void included, when the native future handed
\* to fromCpp completed with a native exception (a std::exception, which has
\* a conversion), the trampoline invokes reject with the converted error and
\* does not invoke resolve.
C2_FailedFutureRejects ==
    \A c \in Ctx :
        (/\ TrampolineRan(handler[c])
         /\ handler[c].fut.st = "exception"
         /\ IsStdException(handler[c].fut.exc))
        => /\ ResolveCalls(handler[c]) = <<>>
           /\ Len(RejectCalls(handler[c])) = 1
           /\ RejectCalls(handler[c])[1].arg = djinni_native_exception_to_js(handler[c].fut.exc)

\* C3: for every result type U and native exception e, once
\* handleNativeException(e) has returned and the main thread has run the
\* work posted to it, the host promise it made has been settled by exactly
\* one invocation of reject, carrying the conversion of the argument e, and
\* by no invocation of resolve, and no exception has left the call.
C3_HandleNativeExceptionRejects ==
    \A c \in Ctx :
        (/\ handler[c].via = "handleNativeException"
         /\ pcF[c] \in {"returned", "threw"}
         /\ ~handler[c].inResolve
         /\ \A i \in 1..Len(mainQueue) : mainQueue[i] # c)
        => /\ ResolveCalls(handler[c]) = <<>>
           /\ Len(RejectCalls(handler[c])) = 1
           /\ RejectCalls(handler[c])[1].arg = djinni_native_exception_to_js(future[c].arg)
           /\ handler[c].escaped = NoExc
           /\ pcF[c] = "returned"

\* The native -> host bridge of context c was given a future already
\* completed with a value, for a non-void result type.
GivenValue(c) ==
    /\ handler[c].via = "fromCpp"
    /\ ~handler[c].result.cppVoid
    /\ future[c].given.st = "value"

\* resolve was invoked exactly once through context c, with the boxed form
\* of the value the future was given with, and reject never.
ResolvedWithBoxed(c) ==
    /\ Len(ResolveCalls(handler[c])) = 1
    /\ ResolveCalls(handler[c])[1].arg = HostNum(future[c].given.val)
    /\ RejectCalls(handler[c]) = <<>>

\* C4 as stated: for every non-void result type and every value v, fromCpp
\* on a future already completed with v invokes resolve exactly once with
\* Boxed::fromCpp(v), and reject is never invoked.
C4_Original ==
    \A c \in Ctx : (GivenValue(c) /\ Settled(c)) => ResolvedWithBoxed(c)

\* C4 as amended: the same, for every value v that Boxed::fromCpp converts
\* without throwing.
C4_PreCompletedValueResolves ==
    \A c \in Ctx :
        (/\ GivenValue(c)
         /\ Settled(c)
         /\ ~BoxedFromCpp(handler[c].result, future[c].given.val).thrown)
        => ResolvedWithBoxed(c)

\* C4 witness: a bridge given a future completed with value 1 has resolved
\* the host promise with the boxed 1.
C4_Witness ==
    \E c \in Ctx :
        /\ GivenValue(c)
        /\ Settled(c)
        /\ future[c].given.val = 1
        /\ ResolveCalls(handler[c]) = <<[fn |-> "resolve", arg |-> HostNum(1), thread |-> MainThread]>>

\* C5: every CppResolveHandler whose future completed is freed exactly once,
\* after its resolve-or-reject invocation, on every exit path of the
\* trampoline; none is freed twice.
C5_HandlerFreedExactlyOnce ==
    \A c \in Ctx :
        /\ Len(handler[c].deletes) <= 1
        /\ TrampolineRan(handler[c]) =>
              /\ handler[c].alloc = "freed"
              /\ Len(handler[c].deletes) = 1
        /\ handler[c].alloc = "freed" => Len(handler[c].calls) = 1

\* C6: in the threaded build every invocation of resolve or reject, every
\* run of the trampoline and every delete of a handler happens on the main
\* thread, whichever thread stored the future.
C6_HostCallsOnMainThread ==
    threaded =>
        \A c \in Ctx :
            /\ \A i \in 1..Len(handler[c].calls) : handler[c].calls[i].thread = MainThread
            /\ \A i \in 1..Len(handler[c].deletes) : handler[c].deletes[i] = MainThread
            /\ \A i \in 1..Len(handler[c].trampolines) : handler[c].trampolines[i] = MainThread
            /\ (handler[c].storedBy = WorkerThread /\ ~TrampolineRan(handler[c])) =>
                  \/ handler[c].inResolve
                  \/ \E i \in 1..Len(mainQueue) : mainQueue[i] = c

\* C6 witness: a worker thread stored the future, and the settlement and
\* the delete then happened on the main thread.
C6_Witness ==
    /\ threaded
    /\ \E c \in Ctx :
          /\ handler[c].storedBy = WorkerThread
          /\ Len(handler[c].calls) = 1
          /\ handler[c].calls[1].thread = MainThread
          /\ handler[c].deletes = <<MainThread>>

\* Every reaction toCpp registered on host promise p that can run has run.
Quiescent(p) ==
    /\ hostPromise[p].o.st # "pending"
    /\ hostPromise[p].thenRan
    /\ CatchTarget(hostPromise[p]).st = "rejected" => hostPromise[p].catchRan

\* C7: on every NativePromise allocated by toCpp at most one terminal call
\* and at most one delete is made, none after the delete, the delete follows
\* the terminal call, and once the host promise has settled and its
\* reactions have run there was exactly one terminal call and one delete.
C7_NativePromiseDiscipline ==
    \A p \in Prom :
        LET np == nativePromise[p]
        IN  /\ Len(np.terminal) <= 1
            /\ np.deletes <= 1
            /\ ~np.afterDelete
            /\ np.deletes = 1 => Len(np.terminal) = 1
            /\ (np.alloc # "none" /\ Quiescent(p)) =>
                  /\ Len(np.terminal) = 1
                  /\ np.deletes = 1
                  /\ np.alloc = "deleted"

\* C7 witness: a fulfilment whose unboxing threw ended in one setException
\* and one delete; another promise ended in one setValue and one delete.
C7_Witness ==
    /\ \E p \in Prom :
          /\ Quiescent(p)
          /\ nativePromise[p].callbacks = <<"resolveNativePromise", "rejectNativePromise">>
          /\ nativePromise[p].terminal = <<"setException">>
          /\ nativePromise[p].deletes = 1
    /\ \E p \in Prom :
          /\ Quiescent(p)
          /\ nativePromise[p].terminal = <<"setValue">>
          /\ nativePromise[p].deletes = 1

\* C8: for every toCpp call, when the host promise has settled and its
\* reactions have run, exactly one of resolveNativePromise and
\* rejectNativePromise has been invoked for that call's NativePromise, and
\* never both, also when the fulfilment callback itself raises because the
\* fulfilled value does not unbox.
C8_CallbackExclusivity ==
    \A p \in Prom :
        /\ Len(nativePromise[p].callbacks) <= 1
        /\ (nativePromise[p].alloc # "none" /\ Quiescent(p)) =>
              Len(nativePromise[p].callbacks) = 1

\* C9 as stated: for every non-void result type and every host value h,
\* when the host promise fulfils with h the native future completes with
\* the value Boxed::toCpp(h) and not with an exception.
C9_Original ==
    \A p \in Prom :
        (/\ nativePromise[p].alloc # "none"
         /\ ~nativePromise[p].result.cppVoid
         /\ hostPromise[p].o.st = "fulfilled"
         /\ Quiescent(p))
        => nativePromise[p].fut = ValueFuture(BoxedToCpp(hostPromise[p].o.val).val)

\* C9 as amended: the same, for every host value h that Boxed::toCpp
\* converts without throwing; the future has the value as soon as the
\* fulfilment callback has run.
C9_FulfilmentCompletesWithUnboxed ==
    \A p \in Prom :
        (/\ nativePromise[p].alloc # "none"
         /\ ~nativePromise[p].result.cppVoid
         /\ hostPromise[p].o.st = "fulfilled"
         /\ hostPromise[p].thenRan
         /\ ~BoxedToCpp(hostPromise[p].o.val).thrown)
        => nativePromise[p].fut = ValueFuture(BoxedToCpp(hostPromise[p].o.val).val)

\* C9 witness: a host promise fulfilled with the number 1 completed the
\* native future with the value 1.
C9_Witness ==
    \E p \in Prom :
        /\ ~nativePromise[p].result.cppVoid
        /\ hostPromise[p].o = HostFulfilled(HostNum(1))
        /\ hostPromise[p].thenRan
        /\ nativePromise[p].fut = ValueFuture(1)

\* C10: for every host promise that rejects with an instance of the host
\* Error type, the native future completes with a JsException wrapping that
\* same error object.
C10_ErrorRejectionWrapsSameObject ==
    \A p \in Prom :
        (/\ nativePromise[p].alloc # "none"
         /\ hostPromise[p].o.st = "rejected"
         /\ InstanceOfError(hostPromise[p].o.val)
         /\ Quiescent(p))
        => /\ nativePromise[p].fut.st = "exception"
           /\ nativePromise[p].fut.exc.cls = "JsException"
           /\ nativePromise[p].fut.exc.cause = hostPromise[p].o.val

\* C10 witness: a host promise rejected with the Error object 1 completed
\* the native future with a JsException whose cause is that object.
C10_Witness ==
    \E p \in Prom :
        /\ hostPromise[p].o = HostRejected(HostError(1, "js"))
        /\ Quiescent(p)
        /\ nativePromise[p].fut = FailedFuture(JsException(HostError(1, "js")))

\* C11: for every host promise that rejects with a value that is not an
\* instance of the host Error type (a number, a string, null, undefined),
\* the native future completes with the generic runtime_error whose message
\* says the promise was rejected with a non-error type; once the reactions
\* have run the future is not pending and the rejection was not dropped.
C11_NonErrorRejectionIsGeneric ==
    \A p \in Prom :
        (/\ nativePromise[p].alloc # "none"
         /\ hostPromise[p].o.st = "rejected"
         /\ ~InstanceOfError(hostPromise[p].o.val)
         /\ Quiescent(p))
        => /\ nativePromise[p].fut = FailedFuture(NonErrorRejection)
           /\ nativePromise[p].fut.exc.what = "JS promise rejected with non-error type"
           /\ nativePromise[p].callbacks = <<"rejectNativePromise">>
           /\ nativePromise[p].terminal = <<"setException">>

\* C11 witness: host promises rejected with null and with a number both
\* completed their native futures with the generic runtime_error.
C11_Witness ==
    /\ \E p \in Prom :
          /\ hostPromise[p].o = HostRejected(HostNull)
          /\ Quiescent(p)
          /\ nativePromise[p].fut = FailedFuture(NonErrorRejection)
    /\ \E p \in Prom :
          /\ hostPromise[p].o = HostRejected(HostNum(1))
          /\ Quiescent(p)
          /\ nativePromise[p].fut = FailedFuture(NonErrorRejection)

\* C12: in both directions every native exception that arises while a
\* bridge settles is caught inside the bridge: none leaves trampoline, and
\* none leaves resolveNativePromise into the host runtime.
C12_NoExceptionEscapes ==
    /\ \A c \in Ctx : handler[c].escaped = NoExc
    /\ \A p \in Prom : hostPromise[p].next # HostRejected(CppThrown)

\* C13: for every fromCpp call whose native future has completed, once the
\* main thread has run the work posted to it (fromCpp has returned, no
\* thread is inside resolve, no trampoline is queued), the host promise has
\* been settled; it stays pending only while the future is pending.
C13_CompletedFutureSettlesPromise ==
    \A c \in Ctx :
        (future[c].state.st # "pending" /\ Settled(c)) => Len(handler[c].calls) >= 1

\* ------------------------------------------- both bridges, one after the other

\* toCpp on the promise fromCpp returned, for the same result type; there
\* is none when fromCpp was left by an exception.
RoundTripToCpp(R) ==
    /\ pcF[RTCtx] = "returned"
    /\ R.cppVoid = handler[RTCtx].result.cppVoid
    /\ ToCpp(RTCtx, R, BuilderPromise(handler[RTCtx]))

NextRT ==
    \/ \E R \in ResultTypes, f0 \in {PendingFuture} \cup AllOutcomes : FromCppNew(RTCtx, R, f0)
    \/ \E U \in UnboxTypes, e \in UserExc, cur \in InFlight :
          HandleNativeException(RTCtx, U, e, cur)
    \/ FromCppBuild(RTCtx)
    \/ \E post \in BOOLEAN : FromCppThen(RTCtx, post)
    \/ \E t \in {MainThread, WorkerThread}, o \in AllOutcomes, post \in BOOLEAN :
          Complete(RTCtx, t, o, post)
    \/ WorkerResolveRest(RTCtx)
    \/ RunPosted
    \/ \E R \in UnboxTypes : RoundTripToCpp(R)
    \/ ThenReaction(RTCtx)
    \/ CatchReaction(RTCtx)

SpecRT == Init /\ [][NextRT]_vars

\* C14: for the void result type a successfully completed native future
\* makes the trampoline invoke resolve with undefined, a fulfilled host
\* promise makes toCpp's callback call setValue with no argument, and in
\* neither direction is the boxing collaborator invoked.
C14_VoidSkipsBoxing ==
    /\ \A c \in Ctx :
          handler[c].result.cppVoid =>
             /\ handler[c].boxCalls = 0
             /\ (TrampolineRan(handler[c]) /\ handler[c].fut.st = "value") =>
                   /\ Len(handler[c].calls) = 1
                   /\ handler[c].calls[1].fn = "resolve"
                   /\ handler[c].calls[1].arg = Undefined
    /\ \A p \in Prom :
          (nativePromise[p].alloc # "none" /\ nativePromise[p].result.cppVoid) =>
             /\ nativePromise[p].unboxCalls = 0
             /\ (hostPromise[p].o.st = "fulfilled" /\ hostPromise[p].thenRan) =>
                   /\ nativePromise[p].terminal = <<"setValue">>
                   /\ nativePromise[p].fut = ValueFuture(0)

\* C14 witness: a void future completed successfully went through both
\* bridges: resolve(undefined), then setValue(), and no boxing call.
C14_Witness ==
    /\ handler[RTCtx].result.cppVoid
    /\ future[RTCtx].state.st = "value"
    /\ handler[RTCtx].calls = <<[fn |-> "resolve", arg |-> Undefined, thread |-> MainThread]>>
    /\ handler[RTCtx].boxCalls = 0
    /\ nativePromise[RTCtx].result.cppVoid
    /\ nativePromise[RTCtx].terminal = <<"setValue">>
    /\ nativePromise[RTCtx].unboxCalls = 0

\* The boxing collaborator of result type R round-trips on v.
BoxingRoundTrips(R, v) ==
    \/ R.cppVoid
    \/ /\ ~BoxedFromCpp(R, v).thrown
       /\ ~BoxedToCpp(BoxedFromCpp(R, v).val).thrown
       /\ BoxedToCpp(BoxedFromCpp(R, v).val).val = v

\* Both bridges of round trip c have finished.
RoundTripDone(c) ==
    /\ handler[c].via = "fromCpp"
    /\ Settled(c)
    /\ nativePromise[c].alloc # "none"
    /\ Quiescent(c)

\* C20: for every result type whose boxing round-trips and every value v,
\* the native future obtained by toCpp(fromCpp(f)), where f completes with
\* v, completes with v, and the CppResolveHandler and the NativePromise in
\* between are each freed exactly once.
C20_RoundTrip ==
    \A c \in Ctx \cap Prom :
        (/\ RoundTripDone(c)
         /\ future[c].state.st = "value"
         /\ BoxingRoundTrips(handler[c].result, future[c].state.val))
        => /\ nativePromise[c].fut = ValueFuture(future[c].state.val)
           /\ Len(handler[c].deletes) = 1
           /\ handler[c].alloc = "freed"
           /\ nativePromise[c].deletes = 1
           /\ nativePromise[c].alloc = "deleted"

\* C20 witness: a future that completed with 1 came back, through both
\* bridges, as a future completed with 1.
C20_Witness ==
    /\ RoundTripDone(RTCtx)
    /\ ~handler[RTCtx].result.cppVoid
    /\ future[RTCtx].state = ValueFuture(1)
    /\ nativePromise[RTCtx].fut = ValueFuture(1)
    /\ handler[RTCtx].deletes = <<MainThread>>
    /\ nativePromise[RTCtx].deletes = 1

\* In handler h's log every access of kind b comes after one of kind a.
ComesAfter(h, a, b) ==
    \A i \in 1..Len(h.log) :
        h.log[i].op = b => \E j \in 1..(i - 1) : h.log[j].op = a

\* C15: for every handler, init stored the host callables before the
\* continuation was attached, the trampoline ran only after the continuation
\* stored the completed future, no resolve or reject was invoked while the
\* future was pending, and the callable invoked is the one init supplied,
\* never the undefined placeholder, also for a future already complete when
\* fromCpp was called.
C15_SettlementOrdering ==
    \A c \in Ctx :
        /\ future[c].cont =>
              /\ handler[c].resolveFunc = "resolve"
              /\ handler[c].rejectFunc = "reject"
        /\ ComesAfter(handler[c], "init", "store")
        /\ ComesAfter(handler[c], "store", "trampoline")
        /\ TrampolineRan(handler[c]) => handler[c].fut.st # "pending"
        /\ handler[c].calls # <<>> => future[c].state.st # "pending"
        /\ \A i \in 1..Len(handler[c].calls) : handler[c].calls[i].fn \in {"resolve", "reject"}

\* C15 witness: a future already complete when fromCpp was called, and one
\* still pending then, were both settled through the callable init stored.
C15_Witness ==
    /\ \E c \in Ctx :
          /\ future[c].given.st = "value"
          /\ Len(handler[c].calls) = 1
          /\ handler[c].calls[1].fn = "resolve"
    /\ \E c \in Ctx :
          /\ future[c].given.st = "pending"
          /\ Len(handler[c].calls) = 1
          /\ handler[c].calls[1].fn = "reject"

\* C16: once the trampoline has deleted a handler nothing reads or writes
\* it again: no access is logged after the delete, the continuation fired
\* at most once, no trampoline of it is still queued, no thread is inside
\* resolve, fromCpp is past its last use of it, and the delete is the last
\* access.
C16_NoUseAfterFree ==
    \A c \in Ctx :
        /\ ~handler[c].afterFree
        /\ future[c].fired <= 1
        /\ Len(handler[c].deletes) <= 1
        /\ handler[c].alloc = "freed" =>
              /\ pcF[c] = "returned"
              /\ ~handler[c].inResolve
              /\ \A i \in 1..Len(mainQueue) : mainQueue[i] # c
              /\ handler[c].log[Len(handler[c].log)].op = "delete"

\* C16 witness: in the build without pthreads the continuation, the
\* trampoline and the delete all ran inside fromCpp, on a future that was
\* already complete, and the handler was not touched afterwards.
C16_Witness ==
    \E c \in Ctx :
        /\ ~threaded
        /\ future[c].given.st # "pending"
        /\ handler[c].alloc = "freed"
        /\ pcF[c] = "returned"
        /\ handler[c].log = <<[op |-> "init", thread |-> MainThread],
                              [op |-> "store", thread |-> MainThread],
                              [op |-> "trampoline", thread |-> MainThread],
                              [op |-> "delete", thread |-> MainThread]>>

\* The accesses of kind op in handler h's log.
Accesses(h, op) == SelectSeq(h.log, LAMBDA x : x.op = op)

\* C17: in the threaded build, for every interleaving of fromCpp on the
\* main thread and a worker completing the future, the callables are
\* written once, by init on the main thread, the future once, by resolve on
\* the completing thread, every trampoline read comes after both writes, and
\* while a worker is inside resolve the main thread has no access to that
\* handler pending: fromCpp is past init and no trampoline of it is queued.
C17_RaceFreedom ==
    threaded =>
        \A c \in Ctx :
            /\ Len(Accesses(handler[c], "init")) <= 1
            /\ \A i \in 1..Len(handler[c].log) :
                  handler[c].log[i].op = "init" => handler[c].log[i].thread = MainThread
            /\ Len(Accesses(handler[c], "store")) <= 1
            /\ ComesAfter(handler[c], "init", "trampoline")
            /\ ComesAfter(handler[c], "store", "trampoline")
            /\ handler[c].inResolve =>
                  /\ handler[c].alloc = "live"
                  /\ pcF[c] = "returned"
                  /\ \A i \in 1..Len(mainQueue) : mainQueue[i] # c

\* C17 witness: a worker thread is inside resolve with the future stored and
\* nothing posted yet, while another handler's future, stored by a worker,
\* was read by the trampoline on the main thread afterwards.
C17_Witness ==
    /\ threaded
    /\ \E c \in Ctx :
          /\ handler[c].inResolve
          /\ handler[c].hasFuture
    /\ \E c \in Ctx :
          handler[c].log = <<[op |-> "init", thread |-> MainThread],
                             [op |-> "store", thread |-> WorkerThread],
                             [op |-> "trampoline", thread |-> MainThread],
                             [op |-> "delete", thread |-> MainThread]>>

\* C18: every step in which toCpp allocates a NativePromise, for a host
\* promise pending or already settled, allocates that one promise only and
\* leaves it live, with no terminal call, no delete and no callback run, and
\* its paired future pending; a terminal call is made only in a later step
\* that runs one of the two registered callbacks.
C18_ToCppReturnsPending ==
    [][\A p \in Prom :
          /\ (nativePromise[p].alloc = "none" /\ nativePromise'[p].alloc # "none") =>
                /\ nativePromise'[p].alloc = "live"
                /\ nativePromise'[p].fut = PendingFuture
                /\ nativePromise'[p].terminal = <<>>
                /\ nativePromise'[p].deletes = 0
                /\ nativePromise'[p].callbacks = <<>>
                /\ ~hostPromise'[p].thenRan
                /\ ~hostPromise'[p].catchRan
                /\ \A q \in Prom \ {p} : nativePromise'[q] = nativePromise[q]
          /\ Len(nativePromise'[p].terminal) > Len(nativePromise[p].terminal) =>
                /\ nativePromise[p].alloc # "none"
                /\ Len(nativePromise'[p].callbacks) > Len(nativePromise[p].callbacks)
      ]_vars

\* C18 witness: toCpp has returned for a host promise that is settled, no
\* callback has run yet and the returned future is pending; for another
\* one the terminal call was made later, inside a callback.
C18_Witness ==
    /\ \E p \in Prom :
          /\ nativePromise[p].alloc = "live"
          /\ hostPromise[p].o.st = "fulfilled"
          /\ ~hostPromise[p].thenRan
          /\ nativePromise[p].fut = PendingFuture
          /\ nativePromise[p].terminal = <<>>
    /\ \E p \in Prom :
          /\ nativePromise[p].terminal # <<>>
          /\ nativePromise[p].callbacks # <<>>

\* C19: while the host promise passed to toCpp has not settled, the
\* NativePromise allocated for it is still allocated, was never deleted, has
\* had no terminal call, and its future is pending.
C19_PendingHoldsResources ==
    \A p \in Prom :
        (nativePromise[p].alloc # "none" /\ hostPromise[p].o.st = "pending") =>
            /\ nativePromise[p].alloc = "live"
            /\ nativePromise[p].deletes = 0
            /\ nativePromise[p].terminal = <<>>
            /\ nativePromise[p].callbacks = <<>>
            /\ nativePromise[p].fut = PendingFuture

\* C19 witness: one host promise is still pending and its NativePromise is
\* held, while a later bridge has already settled and freed its own.
C19_Witness ==
    \E p \in Prom, q \in Prom :
        /\ p < q
        /\ nativePromise[p].alloc = "live"
        /\ hostPromise[p].o.st = "pending"
        /\ nativePromise[p].fut = PendingFuture
        /\ nativePromise[q].alloc = "deleted"
        /\ nativePromise[q].fut # PendingFuture

====
